---- MODULE Spec2Model ----
(***************************************************************************)
(* Session orchestration engine of browser-mon (server.py) and the status  *)
(* check of its automation client (client.py).                             *)
(*                                                                         *)
(* One create call is identified by its index c; the uuid4 drawn at        *)
(* server.py:109 is fresh for every call, so the session id of call c is   *)
(* modelled by c itself, and so are the pid of the process the call spawns *)
(* and the relay task it starts.                                           *)
(***************************************************************************)
EXTENDS Integers, Sequences, FiniteSets, TLC

\* ---------------------------------------------------------------- bounds
MaxCalls == 2        \* create calls (hence sessions, processes, relay tasks)
MaxPortSpan == 1     \* end_port - start_port of the scanned range
MaxLines == 1        \* lines a browser process writes to its output pipe
MaxEvents == 1       \* protocol messages a relay task receives

\* ------------------------------------------------------ program constants
start_port == 9222
\* range(20) with one attempt more.
DiscoveryAttemptsOffByOne == 20 + 1
DiscoveryAttempts == 20
CreateStatus == 200
ClientExpectedStatus == 201
ErrorStatus == 500
\* client.py:28: the only status the client takes for a created session.
ClientAccepts(status) == status = ClientExpectedStatus
NotFoundStatus == 404
OkStatus == 200

end_port == start_port + MaxPortSpan
Ports == start_port..end_port
Calls == 1..MaxCalls
NoPort == 0

VARIABLES
    extPorts,           \* ports of the range bound by other programs of the host
    cpc,                \* position of each create call
    cport,              \* port chosen by each create call
    resp,               \* HTTP answer of each create call
    pstate,             \* OS state of the process each create call spawned
    sig,                \* last signal delivered to each process while it ran
    out,                \* lines each process wrote to its stdout/stderr pipe
    rd,                 \* how many of them the log_output thread has read
    browser_sessions,   \* the registry: session id -> record
    monitoring_tasks,   \* the relay-task table: session id -> task
    events,             \* events list of each BrowserSession object
    relay,              \* position of each relay task
    attempts,           \* discovery attempts each relay task has started
    sleeps,             \* 0.5 s waits each relay task has started
    sent,               \* enable commands each relay task has sent
    cancelReq,          \* cancel() was called on the task and not yet delivered
    why,                \* how each relay task ended
    deleted,            \* ids whose delete succeeded
    shutdownRan,        \* shutdown_event has run
    tracked,            \* ids registered when shutdown_event started
    http,               \* answer a get or delete has just given, if any
    client_pc,          \* position of the automation client's main
    client_session_id,  \* the client's self.session_id
    client_cdp_url      \* the client's self.cdp_url

vars == <<extPorts, cpc, cport, resp, pstate, sig, out, rd, browser_sessions,
          monitoring_tasks, events, relay, attempts, sleeps, sent, cancelReq,
          why, deleted, shutdownRan, tracked, http, client_pc,
          client_session_id, client_cdp_url>>

procVars == <<pstate, sig, out, rd>>
createVars == <<cpc, cport, resp>>
regVars == <<browser_sessions, monitoring_tasks>>
relayVars == <<relay, attempts, sleeps, sent, cancelReq, why>>
ghostVars == <<deleted, shutdownRan, tracked>>
clientVars == <<client_pc, client_session_id, client_cdp_url>>
serverVars == <<extPorts, createVars, procVars, regVars, events, relayVars,
                ghostVars>>

\* ------------------------------------------------------------ OS helpers
Running(c) == pstate[c] \in {"starting", "listening", "unbound"}

\* A port is taken when another program or a listening browser holds it.
Listening(port) ==
    \/ port \in extPorts
    \/ \E d \in Calls : pstate[d] = "listening" /\ cport[d] = port

\* psutil.pid_exists: true for a running process and for one that has
\* terminated but was not waited for (the pid stays allocated until reaped).
is_process_running(pid) == Running(pid) \/ pstate[pid] = "exited"

RECURSIVE ScanPorts(_, _)
ScanPorts(port, last) ==
    IF port > last THEN NoPort
    ELSE IF ~Listening(port) THEN port
    ELSE ScanPorts(port + 1, last)

\* The first port of the range that binds, NoPort when none does (IOError).
find_free_port == ScanPorts(start_port, end_port)

\* The text process.stdout.read() returns: what the log thread left unread.
Unread(c) == SubSeq(out[c], rd[c] + 1, Len(out[c]))

NoResp == [status |-> 0, kind |-> "none", detail |-> <<>>,
           session_id |-> 0, port |-> 0, cdp_url |-> <<>>]

\* os.environ.get("CDP_HOST", "host.docker.internal"): the configured host.
cdp_host == "host.docker.internal"

\* The endpoint f"ws://{host}:{port}".
Url(host, port) == <<"ws", host, port>>

NoUrl == <<>>

\* self.session_id = None: no id recorded.
NoSessionId == 0

NoHttp == [op |-> "none", id |-> 0, status |-> 0, alive |-> FALSE,
           cdp_url |-> NoUrl]

Init ==
    /\ extPorts \in SUBSET Ports
    /\ cpc = [c \in Calls |-> "idle"]
    /\ cport = [c \in Calls |-> NoPort]
    /\ resp = [c \in Calls |-> NoResp]
    /\ pstate = [c \in Calls |-> "none"]
    /\ sig = [c \in Calls |-> "none"]
    /\ out = [c \in Calls |-> <<>>]
    /\ rd = [c \in Calls |-> 0]
    /\ browser_sessions = << >>
    /\ monitoring_tasks = << >>
    /\ events = [c \in Calls |-> <<>>]
    /\ relay = [c \in Calls |-> "none"]
    /\ attempts = [c \in Calls |-> 0]
    /\ sleeps = [c \in Calls |-> 0]
    /\ sent = [c \in Calls |-> <<>>]
    /\ cancelReq = [c \in Calls |-> FALSE]
    /\ why = [c \in Calls |-> "none"]
    /\ deleted = {}
    /\ shutdownRan = FALSE
    /\ tracked = {}
    /\ http = NoHttp
    /\ client_pc = "start"
    /\ client_session_id = NoSessionId
    /\ client_cdp_url = NoUrl

\* ------------------------------------------------------- browser process
\* The process writes a line to the pipe.
ProcWrite(c) ==
    /\ Running(c)
    /\ Len(out[c]) < MaxLines
    /\ out' = [out EXCEPT ![c] = Append(@, Len(@) + 1)]
    /\ UNCHANGED <<extPorts, clientVars, pstate, sig, rd, createVars, regVars, events,
                   relayVars, ghostVars>>
    /\ http' = NoHttp

\* The process opens its debugging port: it listens when the port is still
\* free, and keeps running without an endpoint when somebody took it.
ProcBind(c) ==
    /\ pstate[c] = "starting"
    /\ pstate' = [pstate EXCEPT ![c] =
                    IF Listening(cport[c]) THEN "unbound" ELSE "listening"]
    /\ UNCHANGED <<extPorts, clientVars, sig, out, rd, createVars, regVars, events,
                   relayVars, ghostVars>>
    /\ http' = NoHttp

\* The process terminates: a crash, a bad flag, or its SIGTERM handler.
ProcExit(c) ==
    /\ Running(c)
    /\ pstate' = [pstate EXCEPT ![c] = "exited"]
    /\ UNCHANGED <<extPorts, clientVars, sig, out, rd, createVars, regVars, events,
                   relayVars, ghostVars>>
    /\ http' = NoHttp

\* The daemon thread of the session reads one line and logs it.
log_output(c) ==
    /\ pstate[c] # "none"
    /\ rd[c] < Len(out[c])
    /\ rd' = [rd EXCEPT ![c] = @ + 1]
    /\ UNCHANGED <<extPorts, clientVars, pstate, sig, out, createVars, regVars, events,
                   relayVars, ghostVars>>
    /\ http' = NoHttp

\* --------------------------------------------------------- create_session
\* OkResp that advertises the loopback host the browser itself reports.
OkRespLoopback(c, port) ==
    [status |-> CreateStatus, kind |-> "ok", detail |-> <<>>,
     session_id |-> c, port |-> port, cdp_url |-> Url("localhost", port)]

OkResp(c, port) ==
    [status |-> CreateStatus, kind |-> "ok", detail |-> <<>>,
     session_id |-> c, port |-> port, cdp_url |-> Url(cdp_host, port)]

FailResp(kind, detail) ==
    [status |-> ErrorStatus, kind |-> kind, detail |-> detail,
     session_id |-> 0, port |-> NoPort, cdp_url |-> NoUrl]

\* Lines 109-142: draw the id, probe a port, spawn the browser, start the
\* log thread, and suspend for the settle delay.  find_free_port raises when
\* no port binds and Popen raises when the binary cannot be started; both end
\* the call with status 500 before anything is registered.
CreateBegin(c) ==
    /\ cpc[c] = "idle"
    /\ \A d \in Calls : d < c => cpc[d] # "idle"
    /\ LET port == find_free_port IN
       IF port = NoPort
       THEN /\ cpc' = [cpc EXCEPT ![c] = "failed"]
            /\ resp' = [resp EXCEPT ![c] = FailResp("ResourceExhausted", <<>>)]
            /\ UNCHANGED <<cport, pstate>>
       ELSE \E spawned \in BOOLEAN :
            IF spawned
            THEN /\ cpc' = [cpc EXCEPT ![c] = "settle"]
                 /\ cport' = [cport EXCEPT ![c] = port]
                 /\ pstate' = [pstate EXCEPT ![c] = "starting"]
                 /\ UNCHANGED resp
            ELSE /\ cpc' = [cpc EXCEPT ![c] = "failed"]
                 /\ resp' = [resp EXCEPT ![c] = FailResp("SpawnFailed", <<>>)]
                 /\ UNCHANGED <<cport, pstate>>
    /\ UNCHANGED <<extPorts, clientVars, sig, out, rd, regVars, events, relayVars,
                   ghostVars>>
    /\ http' = NoHttp

\* CreateExited with the record inserted before the liveness probe and not
\* taken out again on failure.
CreateExitedLeak(c) ==
    /\ cpc' = [cpc EXCEPT ![c] = "failed"]
    /\ resp' = [resp EXCEPT ![c] = FailResp("LaunchFailed", Unread(c))]
    /\ pstate' = [pstate EXCEPT ![c] = "reaped"]
    /\ rd' = [rd EXCEPT ![c] = Len(out[c])]
    /\ browser_sessions' =
         [i \in DOMAIN browser_sessions \cup {c} |->
            IF i = c THEN [session_id |-> c, process |-> c, port |-> cport[c]]
            ELSE browser_sessions[i]]
    /\ UNCHANGED <<cport, sig, out, monitoring_tasks, events, relayVars>>

\* Lines 143-148: the process has exited by the end of the settle delay.
\* poll() reaps it, stdout.read() returns what is left in the pipe, and the
\* call fails with that text as its detail.
CreateExited(c) ==
    /\ cpc' = [cpc EXCEPT ![c] = "failed"]
    /\ resp' = [resp EXCEPT ![c] = FailResp("LaunchFailed", Unread(c))]
    /\ pstate' = [pstate EXCEPT ![c] = "reaped"]
    /\ rd' = [rd EXCEPT ![c] = Len(out[c])]
    /\ UNCHANGED <<cport, sig, out, regVars, events, relayVars>>

\* CreateRegister with the task started but not stored (line 155 missing).
CreateRegisterNoTask(c) ==
    /\ cpc' = [cpc EXCEPT ![c] = "returned"]
    /\ resp' = [resp EXCEPT ![c] = OkResp(c, cport[c])]
    /\ browser_sessions' =
         [i \in DOMAIN browser_sessions \cup {c} |->
            IF i = c THEN [session_id |-> c, process |-> c, port |-> cport[c]]
            ELSE browser_sessions[i]]
    /\ relay' = [relay EXCEPT ![c] = "created"]
    /\ UNCHANGED <<cport, pstate, sig, out, rd, events, attempts, sleeps,
                   sent, cancelReq, why, monitoring_tasks>>

\* Lines 150-163: register the session, start its relay task, answer.
CreateRegister(c) ==
    /\ cpc' = [cpc EXCEPT ![c] = "returned"]
    /\ resp' = [resp EXCEPT ![c] = OkResp(c, cport[c])]
    /\ browser_sessions' =
         [i \in DOMAIN browser_sessions \cup {c} |->
            IF i = c THEN [session_id |-> c, process |-> c, port |-> cport[c]]
            ELSE browser_sessions[i]]
    /\ monitoring_tasks' =
         [i \in DOMAIN monitoring_tasks \cup {c} |->
            IF i = c THEN c ELSE monitoring_tasks[i]]
    /\ relay' = [relay EXCEPT ![c] = "created"]
    /\ UNCHANGED <<cport, pstate, sig, out, rd, events, attempts, sleeps,
                   sent, cancelReq, why>>

\* CreateFinish without the poll() of line 143.
CreateFinishNoProbe(c) ==
    /\ cpc[c] = "settle"
    /\ CreateRegister(c)
    /\ UNCHANGED <<extPorts, clientVars, ghostVars>>
    /\ http' = NoHttp

\* Lines 142-163: the call resumes after the settle delay.
CreateFinish(c) ==
    /\ cpc[c] = "settle"
    /\ IF pstate[c] = "exited"
       THEN CreateExited(c)
       ELSE CreateRegister(c)
    /\ UNCHANGED <<extPorts, clientVars, ghostVars>>
    /\ http' = NoHttp

\* ------------------------------------------------------------ get_session
\* NotFound that answers an unknown id like a known one.
NotFoundAsOk(op, id) ==
    [op |-> op, id |-> id, status |-> OkStatus, alive |-> FALSE,
     cdp_url |-> NoUrl]

\* HTTPException(status_code=404, detail="Session not found").
NotFound(op, id) ==
    [op |-> op, id |-> id, status |-> NotFoundStatus, alive |-> FALSE,
     cdp_url |-> NoUrl]

\* Lines 171-177: the body of a successful get.
GetOk(id) ==
    [op |-> "get", id |-> id, status |-> OkStatus,
     alive |-> is_process_running(browser_sessions[id].process),
     cdp_url |-> Url(cdp_host, browser_sessions[id].port)]

\* Line 199: the body of a successful delete.
DeleteOk(id) ==
    [op |-> "delete", id |-> id, status |-> OkStatus, alive |-> FALSE,
     cdp_url |-> NoUrl]

\* get_session that drops a session whose process no longer runs.
get_sessionPurging(id) ==
    /\ IF id \in DOMAIN browser_sessions /\ ~Running(browser_sessions[id].process)
       THEN /\ http' = NotFound("get", id)
            /\ browser_sessions' = [i \in DOMAIN browser_sessions \ {id} |->
                                      browser_sessions[i]]
            /\ monitoring_tasks' = [i \in DOMAIN monitoring_tasks \ {id} |->
                                      monitoring_tasks[i]]
       ELSE /\ http' = IF id \notin DOMAIN browser_sessions
                       THEN NotFound("get", id)
                       ELSE GetOk(id)
            /\ UNCHANGED regVars
    /\ UNCHANGED <<extPorts, clientVars, createVars, procVars, events, relayVars,
                   ghostVars>>

get_session(id) ==
    /\ http' = IF id \notin DOMAIN browser_sessions
               THEN NotFound("get", id)
               ELSE GetOk(id)
    /\ UNCHANGED <<extPorts, clientVars, createVars, procVars, regVars, events, relayVars,
                   ghostVars>>

\* --------------------------------------------------------- delete_session
\* task.cancel(): a request the task sees at its next step; no effect on a
\* task that has finished.
Cancelled(S) ==
    [c \in Calls |-> IF c \in S /\ relay[c] # "done" THEN TRUE ELSE cancelReq[c]]

\* Without with the del statements forgotten.
WithoutNothing(f, S) == f

Without(f, S) == [i \in DOMAIN f \ S |-> f[i]]

\* A signal reaches a process that runs; one sent to a process that has
\* terminated and was not waited for is accepted by os.kill and discarded.
Deliver(pid, signal) ==
    IF Running(pid) THEN [sig EXCEPT ![pid] = signal] ELSE sig

\* TermSignals with the forced signal of shutdown_event.
TermSignalsForced(pid) ==
    IF is_process_running(pid) THEN Deliver(pid, "SIGKILL") ELSE sig

\* Lines 188-189: os.kill(pid, SIGTERM) when the pid exists.
TermSignals(pid) ==
    IF is_process_running(pid) THEN Deliver(pid, "SIGTERM") ELSE sig

delete_session(id) ==
    IF id \notin DOMAIN browser_sessions
    THEN /\ http' = NotFound("delete", id)
         /\ UNCHANGED <<extPorts, clientVars, createVars, procVars, regVars, events,
                        relayVars, ghostVars>>
    ELSE LET pid == browser_sessions[id].process IN
         /\ sig' = TermSignals(pid)
         /\ cancelReq' = Cancelled({id} \cap DOMAIN monitoring_tasks)
         /\ monitoring_tasks' = Without(monitoring_tasks, {id})
         /\ browser_sessions' = Without(browser_sessions, {id})
         /\ deleted' = deleted \cup {id}
         /\ http' = DeleteOk(id)
         /\ UNCHANGED <<extPorts, clientVars, createVars, pstate, out, rd, events, relay,
                        attempts, sleeps, sent, why, shutdownRan, tracked>>

\* --------------------------------------------------------- shutdown_event
\* Killed with the graceful signal of delete_session: the process is still
\* there when os.kill returns.
KilledGraceful(S) == pstate

\* SIGKILL cannot be caught: a running process is gone when os.kill returns.
Killed(S) ==
    [c \in Calls |->
        IF \E i \in S : browser_sessions[i].process = c /\ Running(c)
        THEN "exited" ELSE pstate[c]]

KillSignals(S) ==
    [c \in Calls |->
        IF \E i \in S : browser_sessions[i].process = c /\ is_process_running(c)
        THEN Deliver(c, "SIGKILL")[c] ELSE sig[c]]

shutdown_event ==
    /\ ~shutdownRan
    /\ LET ids == DOMAIN browser_sessions IN
       /\ pstate' = Killed(ids)
       /\ sig' = KillSignals(ids)
       /\ cancelReq' = Cancelled(ids \cap DOMAIN monitoring_tasks)
       /\ tracked' = ids
    /\ browser_sessions' = << >>
    /\ monitoring_tasks' = << >>
    /\ shutdownRan' = TRUE
    /\ UNCHANGED <<extPorts, clientVars, createVars, out, rd, events, relay, attempts,
                   sleeps, sent, why, deleted>>
    /\ http' = NoHttp

\* ------------------------------------------------- monitor_browser_session
\* Positions of a relay task: "created" (scheduled, not yet run), "connect"
\* (awaiting a discovery attempt), "sleep" (awaiting the 0.5 s spacing),
\* "sub_connect" (awaiting the connection to the advertised endpoint), "send"
\* (awaiting an enable command), "recv" (awaiting a message), "done".
Suspended(c) == relay[c] \in {"created", "connect", "sleep", "sub_connect",
                              "send", "recv"}

\* EnableCommands with lines 89 and 90 exchanged.
EnableCommandsSwapped == <<"Network.enable", "Runtime.enable", "Page.enable">>

EnableCommands == <<"Network.enable", "Page.enable", "Runtime.enable">>

\* The phase of the relay state machine a task position belongs to.
Phase(c) ==
    CASE relay[c] \in {"created", "connect", "sleep"} -> "Discovering"
      [] relay[c] \in {"sub_connect", "send"} -> "Subscribing"
      [] relay[c] = "recv" -> "Draining"
      [] relay[c] = "done" -> "Terminated"
      [] OTHER -> "NoTask"

Finish(c, reason) ==
    /\ relay' = [relay EXCEPT ![c] = "done"]
    /\ why' = [why EXCEPT ![c] = reason]

\* DrainLoopTest as `while True`: the loop relies on cancellation alone.
DrainLoopForever(c) ==
    /\ relay' = [relay EXCEPT ![c] = "recv"]
    /\ UNCHANGED why

\* Line 92: the loop test of the drain loop.
DrainLoopTest(c) ==
    IF c \in DOMAIN browser_sessions
    THEN /\ relay' = [relay EXCEPT ![c] = "recv"]
         /\ UNCHANGED why
    ELSE Finish(c, "removed")

\* DrainAppend through a reference to the session object kept by the task,
\* without the membership test.
DrainAppendUnchecked(c, event) == [events EXCEPT ![c] = Append(@, event)]

\* Lines 96-97: a received event goes to the buffer of the session that is
\* still in the registry.
DrainAppend(c, event) ==
    IF c \in DOMAIN browser_sessions
    THEN [events EXCEPT ![c] = Append(@, event)]
    ELSE events

\* A cancelled task gets CancelledError at the point where it is suspended.
\* Neither `except Exception` (line 75, 100, 103) catches it: the task ends.
RelayCancel(c) ==
    /\ Suspended(c)
    /\ cancelReq[c]
    /\ Finish(c, "cancelled")
    /\ cancelReq' = [cancelReq EXCEPT ![c] = FALSE]
    /\ UNCHANGED <<extPorts, clientVars, createVars, procVars, regVars, events, attempts,
                   sleeps, sent, ghostVars>>
    /\ http' = NoHttp

\* Lines 66-72: the task starts and opens its first discovery attempt.
RelayStart(c) ==
    /\ relay[c] = "created"
    /\ ~cancelReq[c]
    /\ relay' = [relay EXCEPT ![c] = "connect"]
    /\ attempts' = [attempts EXCEPT ![c] = 1]
    /\ UNCHANGED <<extPorts, clientVars, createVars, procVars, regVars, events, sleeps,
                   sent, cancelReq, why, ghostVars>>
    /\ http' = NoHttp

\* Lines 72-76 and 81-87: a discovery attempt ends.  It can succeed only when
\* something listens on the port; then the loop breaks, the answer is parsed
\* outside any try block (a malformed answer ends the task with an uncaught
\* error) and the task goes on to connect to the advertised endpoint.  A failed
\* attempt starts the 0.5 s wait.
RelayAttempt(c) ==
    /\ relay[c] = "connect"
    /\ ~cancelReq[c]
    /\ \E outcome \in {"answer", "malformed", "refused"} :
         /\ outcome \in {"answer", "malformed"} => Listening(cport[c])
         /\ IF outcome = "answer"
            THEN /\ relay' = [relay EXCEPT ![c] = "sub_connect"]
                 /\ UNCHANGED <<sleeps, why>>
            ELSE IF outcome = "malformed"
            THEN /\ Finish(c, "uncaught")
                 /\ UNCHANGED sleeps
            ELSE /\ relay' = [relay EXCEPT ![c] = "sleep"]
                 /\ sleeps' = [sleeps EXCEPT ![c] = @ + 1]
                 /\ UNCHANGED why
    /\ UNCHANGED <<extPorts, clientVars, createVars, procVars, regVars, events, attempts,
                   sent, cancelReq, ghostVars>>
    /\ http' = NoHttp

\* RelayNextAttempt that drops the session when discovery gives up.
RelayNextAttemptEvict(c) ==
    /\ relay[c] = "sleep"
    /\ ~cancelReq[c]
    /\ IF attempts[c] < DiscoveryAttempts
       THEN /\ relay' = [relay EXCEPT ![c] = "connect"]
            /\ attempts' = [attempts EXCEPT ![c] = @ + 1]
            /\ UNCHANGED <<why, regVars>>
       ELSE /\ Finish(c, "exhausted")
            /\ browser_sessions' =
                 [i \in DOMAIN browser_sessions \ {c} |-> browser_sessions[i]]
            /\ UNCHANGED <<attempts, monitoring_tasks>>
    /\ http' = NoHttp
    /\ UNCHANGED <<extPorts, clientVars, createVars, procVars, events, sleeps, sent,
                   cancelReq, ghostVars>>

\* Lines 70, 77-79: the wait is over; the next attempt starts, or, after the
\* last one, the else branch of the loop logs the failure and returns.
RelayNextAttempt(c) ==
    /\ relay[c] = "sleep"
    /\ ~cancelReq[c]
    /\ IF attempts[c] < DiscoveryAttempts
       THEN /\ relay' = [relay EXCEPT ![c] = "connect"]
            /\ attempts' = [attempts EXCEPT ![c] = @ + 1]
            /\ UNCHANGED why
       ELSE /\ Finish(c, "exhausted")
            /\ UNCHANGED attempts
    /\ UNCHANGED <<extPorts, clientVars, createVars, procVars, regVars, events, sleeps,
                   sent, cancelReq, ghostVars>>
    /\ http' = NoHttp

\* Lines 86-87, 103-104: the connection to the advertised endpoint opens, or
\* fails and the failure is logged.
RelaySubConnect(c) ==
    /\ relay[c] = "sub_connect"
    /\ ~cancelReq[c]
    /\ \E ok \in BOOLEAN :
         /\ ok => Listening(cport[c])
         /\ IF ok
            THEN /\ relay' = [relay EXCEPT ![c] = "send"]
                 /\ UNCHANGED why
            ELSE Finish(c, "error")
    /\ UNCHANGED <<extPorts, clientVars, createVars, procVars, regVars, events, attempts,
                   sleeps, sent, cancelReq, ghostVars>>
    /\ http' = NoHttp

\* Lines 88-92: the next enable command is sent without reading any reply;
\* after the third the drain loop is entered.  A failed send is logged.
RelaySend(c) ==
    /\ relay[c] = "send"
    /\ ~cancelReq[c]
    /\ \E ok \in BOOLEAN :
         IF ok
         THEN /\ sent' = [sent EXCEPT ![c] = Append(@, EnableCommands[Len(@) + 1])]
              /\ IF Len(sent[c]) + 1 = Len(EnableCommands)
                 THEN DrainLoopTest(c)
                 ELSE UNCHANGED <<relay, why>>
         ELSE /\ Finish(c, "error")
              /\ UNCHANGED sent
    /\ UNCHANGED <<extPorts, clientVars, createVars, procVars, regVars, events, attempts,
                   sleeps, cancelReq, ghostVars>>
    /\ http' = NoHttp

\* Lines 92-102: one turn of the drain loop.  A message is parsed and
\* appended, a timeout continues, any other error is logged and breaks.
\* wait_for may hand over a message that arrived together with a cancel
\* request, in which case the request is consumed and the loop goes on.
RelayRecv(c) ==
    /\ relay[c] = "recv"
    /\ \E outcome \in {"message", "timeout", "error"} :
         /\ cancelReq[c] => outcome = "message"
         /\ outcome = "message" /\ c \in DOMAIN browser_sessions
              => Len(events[c]) < MaxEvents
         /\ IF outcome = "message"
            THEN /\ events' = DrainAppend(c, Len(events[c]) + 1)
                 /\ DrainLoopTest(c)
            ELSE IF outcome = "timeout"
            THEN /\ DrainLoopTest(c)
                 /\ UNCHANGED events
            ELSE /\ Finish(c, "error")
                 /\ UNCHANGED events
    /\ cancelReq' = [cancelReq EXCEPT ![c] = FALSE]
    /\ UNCHANGED <<extPorts, clientVars, createVars, procVars, regVars, attempts, sleeps,
                   sent, ghostVars>>
    /\ http' = NoHttp

\* ------------------------------------------------------ automation client
\* The create call that serves the client's POST.
ClientCall == 1

\* client.py 24-26: main calls create_session and the POST leaves the client.
ClientPost ==
    /\ client_pc = "start"
    /\ client_pc' = "create_session"
    /\ UNCHANGED <<serverVars, client_session_id, client_cdp_url>>
    /\ http' = NoHttp

\* The server takes up the request the client has in flight: the POST of
\* create_session, or the DELETE that cleanup sends for the recorded id.
ServeClient ==
    IF client_pc = "create_session"
    THEN CreateBegin(ClientCall)
    ELSE /\ client_pc = "delete"
         /\ client_session_id \notin deleted
         /\ delete_session(client_session_id)

\* One step of main from its current position.  create_session records the
\* id and the endpoint only when the status is the expected one (lines
\* 28-34); run_automation succeeds or fails; every return and the end of the
\* try block go through the finally clause to cleanup, which returns at once
\* when no id was recorded (lines 113-114) and otherwise sends DELETE.
main ==
    /\ CASE client_pc = "create_session" ->
              /\ cpc[ClientCall] \in {"returned", "failed"}
              /\ IF ClientAccepts(resp[ClientCall].status)
                 THEN /\ client_session_id' = resp[ClientCall].session_id
                      /\ client_cdp_url' = resp[ClientCall].cdp_url
                      /\ client_pc' = "run_automation"
                 ELSE /\ client_pc' = "cleanup"
                      /\ UNCHANGED <<client_session_id, client_cdp_url>>
         [] client_pc = "run_automation" ->
              /\ \E succeeded \in BOOLEAN :
                    client_pc' = IF succeeded THEN "get_session_logs"
                                              ELSE "cleanup"
              /\ UNCHANGED <<client_session_id, client_cdp_url>>
         [] client_pc = "get_session_logs" ->
              /\ client_pc' = "cleanup"
              /\ UNCHANGED <<client_session_id, client_cdp_url>>
         [] client_pc = "cleanup" ->
              /\ client_pc' = IF client_session_id = NoSessionId THEN "done"
                                                                 ELSE "delete"
              /\ UNCHANGED <<client_session_id, client_cdp_url>>
         [] client_pc = "delete" ->
              /\ client_session_id \in deleted
              /\ client_pc' = "done"
              /\ UNCHANGED <<client_session_id, client_cdp_url>>
         [] OTHER -> FALSE
    /\ UNCHANGED serverVars
    /\ http' = NoHttp

\* ------------------------------------------------------------------ Next
CreateStep(c) == CreateBegin(c) \/ CreateFinish(c)

ProcStep(c) == ProcBind(c) \/ ProcExit(c)

OutputStep(c) == ProcWrite(c) \/ log_output(c)

ApiStep(c) == get_session(c) \/ delete_session(c)

RelayStep(c) ==
    \/ RelayCancel(c)
    \/ RelayStart(c)
    \/ RelayAttempt(c)
    \/ RelayNextAttempt(c)
    \/ RelaySubConnect(c)
    \/ RelaySend(c)
    \/ RelayRecv(c)

\* Concurrent requests: the handlers and the browser processes of all
\* calls.  The relay tasks are created and cancelled but not scheduled, and
\* the output pipes stay empty; no step of a relay task or of a log thread
\* writes a variable that a handler or a process reads, except the unread
\* output that ends up in the detail of a failed launch.
Next ==
    \/ \E c \in Calls : CreateStep(c) \/ ProcStep(c) \/ ApiStep(c)
    \/ shutdown_event

Spec == Init /\ [][Next]_vars

\* The same with the processes writing output and the log threads reading it.
NextLaunch ==
    \/ \E c \in Calls : CreateStep(c) \/ ProcStep(c) \/ OutputStep(c) \/ ApiStep(c)
    \/ shutdown_event

SpecLaunch == Init /\ [][NextLaunch]_vars

\* One session from request to teardown, with its relay task scheduled
\* through all twenty discovery attempts.
NextRelay ==
    \/ \E c \in {1} :
         CreateStep(c) \/ ProcStep(c) \/ OutputStep(c) \/ ApiStep(c) \/ RelayStep(c)
    \/ shutdown_event

SpecRelay == Init /\ [][NextRelay]_vars

\* The event loop runs every task that is ready: a relay task that can take
\* a step (a cancellation to deliver, a connection, wait, send or receive that
\* completes or times out) eventually takes one.
SpecRelayFair == SpecRelay /\ WF_vars(RelayStep(1))

\* The automation client run once against the server: its POST is served by
\* create call 1, whose process starts, writes, binds or exits meanwhile.
NextClient ==
    \/ ClientPost
    \/ ServeClient
    \/ main
    \/ CreateFinish(ClientCall)
    \/ ProcStep(ClientCall)
    \/ OutputStep(ClientCall)

SpecClient == Init /\ [][NextClient]_vars

\* ---------------------------------------------------------------- claims
Registered == DOMAIN browser_sessions

\* C1: no two sessions that are in the registry at the same time have the
\* same port.
C1_DistinctPorts ==
    \A i, j \in Registered :
        i # j => browser_sessions[i].port # browser_sessions[j].port

\* C2: a create call that fails changes neither the registry nor the
\* relay-task table in any of its steps, is not registered, and leaves no
\* process of its own running; when no port is free it spawned none.
C2_FailedCreateLeavesNothing ==
    [][\A c \in Calls :
         /\ (cpc[c] = "idle" /\ cpc'[c] # "idle") => UNCHANGED regVars
         /\ (cpc[c] # "failed" /\ cpc'[c] = "failed") =>
              /\ UNCHANGED regVars
              /\ resp'[c].status = ErrorStatus
         /\ cpc'[c] = "failed" =>
              /\ c \notin DOMAIN browser_sessions'
              /\ c \notin DOMAIN monitoring_tasks'
              /\ pstate'[c] \in {"none", "reaped"}
              /\ resp'[c].kind = "ResourceExhausted" => pstate'[c] = "none"
              /\ resp'[c].kind = "SpawnFailed" => pstate'[c] = "none"]_vars

\* A create call failed on a process that exited during the settle delay
\* while the session of another call is registered.
C2_Witness ==
    \E c \in Calls :
        /\ cpc[c] = "failed"
        /\ resp[c].kind = "LaunchFailed"
        /\ Registered # {}

C4_DeletedStaysNotFound ==
    /\ \A id \in deleted : id \notin Registered
    /\ (http.op = "get" /\ http.id \in deleted) => http.status = NotFoundStatus

\* get answered 404 for a deleted id while another session is registered.
C4_Witness ==
    /\ http.op = "get"
    /\ http.id \in deleted
    /\ http.status = NotFoundStatus
    /\ Registered # {}

\* C5: when get answers NotFound for a session that was created and then
\* deleted, the OS process of that session no longer exists.
C5_ProcessGoneAfterDelete ==
    (http.op = "get" /\ http.id \in deleted /\ http.status = NotFoundStatus)
        => ~is_process_running(http.id)

\* C6: a successful create answers 201, which the client accepts, with the
\* session id and the endpoint; a failed create answers 500.
C6_CreateAnswers201 ==
    \A c \in Calls :
        /\ cpc[c] = "returned" =>
              /\ resp[c].status = 201
              /\ ClientAccepts(resp[c].status)
              /\ resp[c].session_id = c
              /\ resp[c].port = cport[c]
        /\ cpc[c] = "failed" => resp[c].status = 500

\* C7: when the last discovery attempt of a session's relay task has failed,
\* the task ends by returning, the step changes neither the registry nor the
\* relay-task table, the session is registered after it, and from then on only
\* delete of that id or shutdown_event takes the session out of the registry.
C7_ExhaustedKeepsSession ==
    [][\A c \in Calls :
         /\ (why[c] # "exhausted" /\ why'[c] = "exhausted") =>
              /\ relay'[c] = "done"
              /\ attempts[c] = 20
              /\ sleeps[c] = 20
              /\ c \in DOMAIN browser_sessions'
              /\ UNCHANGED regVars
         /\ (why[c] = "exhausted" /\ c \in Registered
                /\ c \notin DOMAIN browser_sessions') =>
              \/ (http'.op = "delete" /\ http'.id = c /\ http'.status = OkStatus)
              \/ (~shutdownRan /\ shutdownRan')]_vars

\* The relay task gave up after twenty failed attempts; the session is in
\* the registry and its process runs.
C7_Witness ==
    \E c \in Calls :
        /\ why[c] = "exhausted"
        /\ relay[c] = "done"
        /\ c \in Registered
        /\ Running(c)

\* C8: a session's event buffer changes only by one element appended at its
\* end, in a step of the session's own relay task taken at its receive while
\* the session is registered; hence it never shrinks and never grows once the
\* session has been removed.
C8_BufferAppendOnly ==
    [][\A c \in Calls :
         events'[c] # events[c] =>
            /\ \E e \in 1..(MaxEvents + 1) : events'[c] = Append(events[c], e)
            /\ c \in Registered
            /\ c \in DOMAIN browser_sessions'
            /\ relay[c] = "recv"
            /\ \A d \in Calls \ {c} : events'[d] = events[d]
            /\ UNCHANGED <<createVars, procVars, regVars>>]_vars

\* The relay task received a message after its session was removed, found
\* the session gone and ended, with the buffer as it was at removal.
C8_Witness ==
    \E c \in Calls :
        /\ why[c] = "removed"
        /\ Len(events[c]) > 0
        /\ c \notin Registered

\* C9: discovery starts at most 20 attempts, one at a time; it waits only
\* after a failed attempt, once per failure; the first success ends it, so a
\* task past discovery has started no attempt after the successful one; and
\* the wait after the 20th failure can only be followed by the task's end.
C9_BoundedDiscovery ==
    [][\A c \in Calls :
         /\ attempts'[c] <= 20
         /\ attempts'[c] # attempts[c] =>
              /\ attempts'[c] = attempts[c] + 1
              /\ relay[c] \in {"created", "sleep"}
              /\ relay'[c] = "connect"
         /\ sleeps'[c] # sleeps[c] =>
              /\ sleeps'[c] = sleeps[c] + 1
              /\ relay[c] = "connect"
              /\ relay'[c] = "sleep"
         /\ relay'[c] = "connect" => sleeps'[c] = attempts'[c] - 1
         /\ relay'[c] = "sleep" => sleeps'[c] = attempts'[c]
         /\ relay'[c] \in {"sub_connect", "send", "recv"} =>
              /\ attempts'[c] \in 1..20
              /\ sleeps'[c] = attempts'[c] - 1
         /\ why'[c] = "exhausted" => attempts'[c] = 20 /\ sleeps'[c] = 20
         /\ (relay[c] = "sleep" /\ attempts[c] = 20 /\ relay'[c] # "sleep") =>
              relay'[c] = "done"]_vars

\* Discovery succeeded at the 20th attempt, after 19 waits, and the task
\* went on to drain.
C9_Witness ==
    \E c \in Calls :
        /\ relay[c] = "recv"
        /\ attempts[c] = 20
        /\ sleeps[c] = 19

\* C10: a create call that fails because the process exited during the
\* settle delay carries in its detail the output the process wrote, and
\* registers no session.
C10_DetailCarriesOutput ==
    \A c \in Calls :
        resp[c].kind = "LaunchFailed" =>
            /\ resp[c].detail = out[c]
            /\ c \notin Registered

\* C11: get and delete of an id that is not in the registry (never created,
\* deleted before, or cleared by shutdown_event) answer 404 and change neither
\* the registry, nor the relay-task table, nor any process, task or buffer.
C11_UnknownIdNotFound ==
    [][(http'.op \in {"get", "delete"} /\ http'.id \notin Registered) =>
          /\ http'.status = NotFoundStatus
          /\ UNCHANGED <<regVars, procVars, createVars, relayVars, events,
                         ghostVars>>]_vars

\* A second delete of a deleted id has just answered 404, after
\* shutdown_event cleared the session of the other call.
C11_Witness ==
    /\ http.op = "delete"
    /\ http.id \in deleted
    /\ http.status = NotFoundStatus
    /\ shutdownRan
    /\ tracked # {}

\* C12: the endpoint a successful create returns has the port the process
\* was launched with, which lies in the scanned range inside 9222..9322, and
\* the configured host; a get of the session returns the same endpoint.
C12_EndpointOfSession ==
    /\ \A c \in Calls :
         cpc[c] = "returned" =>
            /\ resp[c].cdp_url = Url(cdp_host, cport[c])
            /\ cport[c] \in start_port..end_port
            /\ cport[c] \in 9222..9322
    /\ (http.op = "get" /\ http.status = OkStatus) =>
            /\ http.cdp_url = resp[http.id].cdp_url
            /\ http.cdp_url = Url(cdp_host, browser_sessions[http.id].port)

\* A get has just returned the endpoint of a session that was launched on
\* the last port of the range.
C12_Witness ==
    /\ http.op = "get"
    /\ http.status = OkStatus
    /\ cport[http.id] = end_port
    /\ http.cdp_url = resp[http.id].cdp_url

\* C13: every session in the registry holds the process its own create call
\* spawned, was put there by that call at the end of its settle delay, and its
\* process ran at that probe; and a create call whose process runs at the
\* probe registers the session and returns it.
C13_RegisteredPassedProbe ==
    [][\A c \in Calls :
         /\ c \in DOMAIN browser_sessions' =>
              /\ browser_sessions'[c].process = c
              /\ pstate'[c] \in {"starting", "listening", "unbound", "exited"}
              /\ cpc'[c] = "returned"
         /\ (c \notin Registered /\ c \in DOMAIN browser_sessions') =>
              /\ cpc[c] = "settle"
              /\ Running(c)
         /\ (cpc[c] = "settle" /\ cpc'[c] # "settle" /\ Running(c)) =>
              /\ c \in DOMAIN browser_sessions'
              /\ cpc'[c] = "returned"
              /\ resp'[c].session_id = c]_vars

\* A registered session whose process exited after it had passed the probe,
\* beside a call that failed the probe.
C13_Witness ==
    /\ \E i \in Registered : pstate[i] = "exited"
    /\ \E c \in Calls : resp[c].kind = "LaunchFailed"

\* C14: between any two steps the registry and the relay-task table have the
\* same ids, the task stored for a session is the one its create call started,
\* and a relay task is started only by the registering step of a create call,
\* once per call.
C14_OneTaskPerSession ==
    [][/\ DOMAIN browser_sessions' = DOMAIN monitoring_tasks'
       /\ \A i \in DOMAIN monitoring_tasks' :
            /\ monitoring_tasks'[i] = i
            /\ relay'[i] # "none"
       /\ \A c \in Calls :
            (relay'[c] = "created" /\ relay[c] # "created") =>
               /\ relay[c] = "none"
               /\ cpc[c] = "settle"
               /\ cpc'[c] = "returned"]_vars

\* A session is registered with its own task after the session of another
\* call was deleted.
C14_Witness ==
    /\ Cardinality(Registered) >= 1
    /\ deleted # {}
    /\ \A i \in Registered : monitoring_tasks[i] = i /\ relay[i] = "created"

\* C15: a relay task moves only from Discovering to Subscribing to Draining,
\* or from any of them to Terminated; it sends nothing before a discovery
\* attempt has succeeded, sends Network.enable, Page.enable, Runtime.enable
\* once each in that order with no receive in between, and puts no message
\* into the buffer before all three are sent.
C15_PhaseOrder ==
    [][\A c \in Calls :
         /\ Phase(c)' # Phase(c) =>
              \/ <<Phase(c), Phase(c)'>> \in
                     {<<"NoTask", "Discovering">>,
                      <<"Discovering", "Subscribing">>,
                      <<"Subscribing", "Draining">>}
              \/ (Phase(c) # "NoTask" /\ Phase(c)' = "Terminated")
         /\ sent'[c] # sent[c] =>
              /\ Phase(c) = "Subscribing"
              /\ Len(sent[c]) < 3
              /\ sent'[c] = Append(sent[c],
                    <<"Network.enable", "Page.enable", "Runtime.enable">>[Len(sent[c]) + 1])
              /\ events'[c] = events[c]
         /\ Phase(c)' \in {"NoTask", "Discovering"} => sent'[c] = <<>>
         /\ Len(sent'[c]) > 0 =>
              /\ attempts'[c] >= 1
              /\ sleeps'[c] = attempts'[c] - 1
         /\ Phase(c)' = "Draining" =>
              sent'[c] = <<"Network.enable", "Page.enable", "Runtime.enable">>
         /\ events'[c] # events[c] =>
              sent[c] = <<"Network.enable", "Page.enable", "Runtime.enable">>]_vars

\* A task went through all phases: it discovered after a failed attempt,
\* sent the three commands, received a message and ended.
C15_Witness ==
    \E c \in Calls :
        /\ Phase(c) = "Terminated"
        /\ sleeps[c] >= 1
        /\ sent[c] = <<"Network.enable", "Page.enable", "Runtime.enable">>
        /\ Len(events[c]) > 0

\* C16: once a session has left the registry by delete or shutdown_event,
\* the first step its relay task takes, in whichever phase, ends the task (the
\* cancellation delivered where it is suspended, or the drain loop's
\* membership test after a receive that outran the cancellation), and the task
\* does reach Terminated.
C16_RemovedTaskTerminates ==
    /\ [][\A c \in Calls :
            (/\ c \notin Registered
             /\ relay[c] \notin {"none", "done"}
             /\ <<relay[c], attempts[c], sleeps[c], sent[c], events[c],
                  cancelReq[c]>>' #
                <<relay[c], attempts[c], sleeps[c], sent[c], events[c],
                  cancelReq[c]>>)
            => relay'[c] = "done" /\ why'[c] \in {"cancelled", "removed"}]_vars
    /\ \A c \in Calls :
          (c \in deleted \/ c \in tracked) ~> (relay[c] = "done")

\* A task ended by cancellation after shutdown_event removed its session
\* while it was draining.
C16_Witness ==
    \E c \in tracked :
        /\ why[c] = "cancelled"
        /\ sent[c] = EnableCommands
        /\ relay[c] = "done"

\* C17: the ids of the registry and of the relay-task table change only in
\* the registering step of a create call (its own new id is added), in a
\* successful delete (the given id is removed) and in shutdown_event (all are
\* removed); get, every step of a relay task, the log thread and the process
\* itself leave both tables as they are.
C17_OnlyLifecycleWritesRegistry ==
    [][/\ (DOMAIN browser_sessions' # Registered
             \/ DOMAIN monitoring_tasks' # DOMAIN monitoring_tasks) =>
            \/ \E c \in Calls :
                 /\ cpc[c] = "settle" /\ cpc'[c] = "returned"
                 /\ c \notin Registered
                 /\ DOMAIN browser_sessions' = Registered \cup {c}
            \/ /\ http'.op = "delete" /\ http'.status = OkStatus
               /\ http'.id \in Registered
               /\ DOMAIN browser_sessions' = Registered \ {http'.id}
            \/ /\ ~shutdownRan /\ shutdownRan'
               /\ DOMAIN browser_sessions' = {}
       /\ http'.op = "get" => UNCHANGED regVars
       /\ (\E c \in Calls :
             /\ relay[c] # "none"
             /\ <<relay[c], attempts[c], sleeps[c], sent[c], events[c], why[c]>>' #
                <<relay[c], attempts[c], sleeps[c], sent[c], events[c], why[c]>>)
            => UNCHANGED regVars
       /\ ((rd' # rd /\ cpc' = cpc) \/ out' # out) => UNCHANGED regVars
       /\ (pstate' # pstate /\ shutdownRan' = shutdownRan) => UNCHANGED regVars]_vars

\* A get has just answered for a session that is still registered although
\* its relay task ended on an error, its process has exited and its output was
\* logged.
C17_Witness ==
    \E c \in Registered :
        /\ http.op = "get" /\ http.id = c /\ http.status = OkStatus
        /\ why[c] = "error"
        /\ pstate[c] = "exited"
        /\ rd[c] > 0

C19_AliveIffProcessRuns ==
    (http.op = "get" /\ http.status = OkStatus) =>
        /\ http.id \in Registered
        /\ http.alive = Running(browser_sessions[http.id].process)

\* C20: when the client's main has ended, the session the server
\* registered in answer to the client's create request is the one the client
\* recorded, and the client's cleanup has deleted it.
C20_ClientDeletesItsSession ==
    (client_pc = "done" /\ resp[ClientCall].kind = "ok") =>
        /\ client_session_id = resp[ClientCall].session_id
        /\ client_session_id \in deleted

====
